---- MODULE Spec2Model ----
(***************************************************************************)
(* Wide-colour EGL context negotiation of the image viewer                 *)
(* (image-view/src/main/cpp/WideColorCtx.cpp).                             *)
(*                                                                         *)
(* The engine's fields are the variables display_, eglContext_, surface_,  *)
(* dispColorSpace_, dispFormat_, renderTargetWidth_, renderTargetHeight_.  *)
(* The EGL implementation and the native window are the record `egl`.      *)
(* CreateWideColorCtx(void) is modelled in steps (its entry, then one step *)
(* per CreateWideColorCtx(mode) call it makes); pc says where it is.       *)
(***************************************************************************)
EXTENDS Integers, Sequences, FiniteSets, TLC

VARIABLES
  display_, eglContext_, surface_, dispColorSpace_, dispFormat_,
  renderTargetWidth_, renderTargetHeight_,
  egl,        \* the platform: display, extensions, configs, live objects
  pc,         \* "idle" | "loop" | "legacy" | "aborted"
  index,      \* number of entries of modes[] already tried (pc = "loop")
  modes,      \* the modes[] array of the running CreateWideColorCtx(void)
  lastOp,     \* history: the entry point that ran last
  ret,        \* history: what it returned ("none" while running / aborted)
  failStep,   \* history: the step at which the last per-mode attempt ended
  attempts,   \* history: modes passed to CreateWideColorCtx(mode) by the
              \*          current / last CreateWideColorCtx(void), in order
  calls,      \* history: platform calls made by the last step, in order
  cfgReply,   \* history: what eglChooseConfig answered in the last per-mode
              \*          attempt (asked = FALSE when there was none)
  fresh,      \* history: the running / last entry point was entered with
              \*          the engine uninitialised
  call,       \* the last call of a file-static helper: its name, arguments
              \*          and result (fn = "none" when there was none)
  table       \* the std::vector<uint8_t> a caller hands to the gamma table
              \*          builders

engineVars == <<display_, eglContext_, surface_, dispColorSpace_, dispFormat_,
                renderTargetWidth_, renderTargetHeight_>>
vars == <<display_, eglContext_, surface_, dispColorSpace_, dispFormat_,
          renderTargetWidth_, renderTargetHeight_,
          egl, pc, index, modes, lastOp, ret, failStep, attempts, calls,
          cfgReply, fresh, call, table>>

---------------------------------------------------------------------------
(* Bounds of the model *)

\* context handles the platform can hand out at the same time
MaxContexts == 2
\* largest config count eglChooseConfig may report in cfgCount
MaxCfgCount == 2
\* largest surface width / height eglQuerySurface may report
MaxDim == 1
\* longest list of required extensions handed to CheckRequiredEGLExt
MaxRequired == 2
\* largest magnitude of a sampled matrix coefficient, in units of 1/2048
MaxCoeff == 3
\* largest gamma exponent handed to the gamma table builders
MaxGamma == 2
\* number of table builds a caller makes on one vector
MaxBuilds == 2

---------------------------------------------------------------------------
(* EGL handles and enumerations *)

EGL_NO_DISPLAY == 0
EGL_NO_CONTEXT == 0
EGL_NO_SURFACE == 0
\* the handle eglGetDisplay(EGL_DEFAULT_DISPLAY) returns when there is one
EGL_DEFAULT_DISPLAY == 1

ContextHandles == 1..MaxContexts
\* the handle eglCreateWindowSurface returns for the application's window
\* (a native window carries at most one EGL surface at a time)
EGL_WINDOW_SURFACE == 1
Dims == 1..MaxDim

\* WIDECOLOR_MODE, the index into appWideColorCfg / glWideColorCfg
P3_PASSTHROUGH_R8G8B8A8_REV == 0
P3_PASSTHROUGH_R10G10B10A2_REV == 1
P3_PASSTHROUGH_FP16 == 2
P3_R8G8B8A8_REV == 3
P3_R10G10B10A2_REV == 4
P3_FP16 == 5
SRGBA_R8G8B8A8_REV == 6

WIDECOLOR_MODE == 0..6

appWideColorCfg ==
  << [space_ |-> "P3_PASSTHROUGH", fmt_ |-> "R8G8B8A8_REV"],
     [space_ |-> "P3_PASSTHROUGH", fmt_ |-> "R10G10B10_A2_REV"],
     [space_ |-> "P3_PASSTHROUGH", fmt_ |-> "RGBA_FP16"],
     [space_ |-> "P3",             fmt_ |-> "R8G8B8A8_REV"],
     [space_ |-> "P3",             fmt_ |-> "R10G10B10_A2_REV"],
     [space_ |-> "P3",             fmt_ |-> "RGBA_FP16"],
     [space_ |-> "SRGB",           fmt_ |-> "R8G8B8A8_REV"] >>

glWideColorCfg ==
  << [space_ |-> "EGL_GL_COLORSPACE_DISPLAY_P3_PASSTHROUGH_EXT",
      r_ |-> 8,  g_ |-> 8,  b_ |-> 8,  a_ |-> 8],
     [space_ |-> "EGL_GL_COLORSPACE_DISPLAY_P3_PASSTHROUGH_EXT",
      r_ |-> 10, g_ |-> 10, b_ |-> 10, a_ |-> 2],
     [space_ |-> "EGL_GL_COLORSPACE_DISPLAY_P3_PASSTHROUGH_EXT",
      r_ |-> 16, g_ |-> 16, b_ |-> 16, a_ |-> 16],
     [space_ |-> "EGL_GL_COLORSPACE_DISPLAY_P3_EXT",
      r_ |-> 8,  g_ |-> 8,  b_ |-> 8,  a_ |-> 8],
     [space_ |-> "EGL_GL_COLORSPACE_DISPLAY_P3_EXT",
      r_ |-> 10, g_ |-> 10, b_ |-> 10, a_ |-> 2],
     [space_ |-> "EGL_GL_COLORSPACE_DISPLAY_P3_EXT",
      r_ |-> 16, g_ |-> 16, b_ |-> 16, a_ |-> 16],
     [space_ |-> "EGL_GL_COLORSPACE_SRGB_KHR",
      r_ |-> 8,  g_ |-> 8,  b_ |-> 8,  a_ |-> 8] >>

\* The attribute list handed to eglChooseConfig for a mode: the channel sizes
\* of glWideColorCfg[mode] and the colour component type, which is FLOAT for
\* mode P3_FP16 alone.  (Surface and renderable type are the same for all.)
ConfigAttributes(mode) ==
  [ b |-> glWideColorCfg[mode + 1].b_,
    g |-> glWideColorCfg[mode + 1].g_,
    r |-> glWideColorCfg[mode + 1].r_,
    a |-> glWideColorCfg[mode + 1].a_,
    type |-> IF mode = P3_FP16 THEN "EGL_COLOR_COMPONENT_TYPE_FLOAT_EXT"
                               ELSE "EGL_COLOR_COMPONENT_TYPE_FIXED_EXT" ]

\* every attribute list the engine can request
AttributeLists == { ConfigAttributes(m) : m \in WIDECOLOR_MODE }

---------------------------------------------------------------------------
(* Extension names, as character sequences, and the extension string *)

EGL_KHR_gl_colorspace ==
  <<"E","G","L","_","K","H","R","_","g","l","_","c","o","l","o","r","s","p","a","c","e">>
EGL_EXT_gl_colorspace_display_p3 ==
  <<"E","G","L","_","E","X","T","_","g","l","_","c","o","l","o","r","s","p","a","c","e","_","d","i","s","p","l","a","y","_","p","3">>
EGL_EXT_gl_colorspace_display_p3_passthrough ==
  <<"E","G","L","_","E","X","T","_","g","l","_","c","o","l","o","r","s","p","a","c","e","_","d","i","s","p","l","a","y","_","p","3","_","p","a","s","s","t","h","r","o","u","g","h">>
EGL_EXT_gl_colorspace_display_p3_linear ==
  <<"E","G","L","_","E","X","T","_","g","l","_","c","o","l","o","r","s","p","a","c","e","_","d","i","s","p","l","a","y","_","p","3","_","l","i","n","e","a","r">>
GL_EXT_gl_colorspace_display_p3_passthrough ==
  <<"G","L","_","E","X","T","_","g","l","_","c","o","l","o","r","s","p","a","c","e","_","d","i","s","p","l","a","y","_","p","3","_","p","a","s","s","t","h","r","o","u","g","h">>

\* the extension names a display of the model may advertise, in the order
\* they appear in its extension string
ExtensionNames ==
  << "EGL_KHR_gl_colorspace",
     "EGL_EXT_gl_colorspace_display_p3",
     "EGL_EXT_gl_colorspace_display_p3_passthrough",
     "EGL_EXT_gl_colorspace_display_p3_linear" >>

\* the characters of an extension name
Chars(name) ==
  CASE name = "EGL_KHR_gl_colorspace" -> EGL_KHR_gl_colorspace
    [] name = "EGL_EXT_gl_colorspace_display_p3" ->
         EGL_EXT_gl_colorspace_display_p3
    [] name = "EGL_EXT_gl_colorspace_display_p3_passthrough" ->
         EGL_EXT_gl_colorspace_display_p3_passthrough
    [] name = "EGL_EXT_gl_colorspace_display_p3_linear" ->
         EGL_EXT_gl_colorspace_display_p3_linear

ExtensionSets == SUBSET { ExtensionNames[i] : i \in 1..Len(ExtensionNames) }

\* the required sets of CreateWideColorCtx(void)
passthruExt ==
  << EGL_KHR_gl_colorspace, GL_EXT_gl_colorspace_display_p3_passthrough >>
p3Exts ==
  << EGL_KHR_gl_colorspace, EGL_EXT_gl_colorspace_display_p3 >>

RECURSIVE JoinNames(_, _)
JoinNames(advertised, i) ==
  IF i > Len(ExtensionNames) THEN << >>
  ELSE (IF ExtensionNames[i] \in advertised
          THEN Chars(ExtensionNames[i]) \o <<" ">> ELSE << >>)
       \o JoinNames(advertised, i + 1)

\* The space separated extension string of a display advertising `advertised`
ExtensionString(advertised) == JoinNames(advertised, 1)

npos == -1

\* std::string::find: the first position (from 0) at which `needle` occurs
\* in `hay`, npos when it occurs nowhere
find(hay, needle) ==
  LET Hits == { p \in 0..(Len(hay) - Len(needle)) :
                  \A j \in 1..Len(needle) : hay[p + j] = needle[j] }
  IN IF Hits = {} THEN npos
     ELSE CHOOSE p \in Hits : \A q \in Hits : p <= q

\* CheckFrom that answers after the search for one name
CheckFrom_FirstOnly(eglExt, exts, k) ==
  IF k > Len(exts) THEN TRUE ELSE find(eglExt, exts[k]) # npos

RECURSIVE CheckFrom(_, _, _)
CheckFrom(eglExt, exts, k) ==
  IF k > Len(exts) THEN TRUE
  ELSE IF find(eglExt, exts[k]) = npos THEN FALSE
  ELSE CheckFrom(eglExt, exts, k + 1)

\* CheckRequiredEGLExt, given the string eglQueryString returned
CheckRequiredEGLExt(eglExt, exts) == CheckFrom(eglExt, exts, 1)

\* the number of eglExt.find(ext) calls the loop of CheckRequiredEGLExt makes
\* from entry k of exts on
RECURSIVE SearchedFrom(_, _, _)
SearchedFrom(eglExt, exts, k) ==
  IF k > Len(exts) THEN 0
  ELSE IF find(eglExt, exts[k]) = npos THEN 1
  ELSE 1 + SearchedFrom(eglExt, exts, k + 1)

---------------------------------------------------------------------------
(* The platform (EGL implementation and native window), a record:           *)
(*   display     "ok" | "none" | "initFails": whether a default display     *)
(*               exists and whether it can be initialised                   *)
(*   advertised  the extension names the display advertises                 *)
(*   configs     the attribute lists for which the display has a config     *)
(*   initialized whether the display connection is initialised              *)
(*   contexts, surfaces   the live (created, not destroyed) objects         *)
(*   curContext, curSurface   what eglMakeCurrent bound last                *)

\* The config sets of the displays of the model: a display that has a config
\* of some depth has the shallower ones too
ConfigSets ==
  { {},
    { ConfigAttributes(SRGBA_R8G8B8A8_REV) },
    { ConfigAttributes(SRGBA_R8G8B8A8_REV),
      ConfigAttributes(P3_R10G10B10A2_REV) },
    { ConfigAttributes(SRGBA_R8G8B8A8_REV),
      ConfigAttributes(P3_R10G10B10A2_REV), ConfigAttributes(P3_FP16) },
    AttributeLists }

\* A display that is missing or cannot be initialised advertises nothing
Platforms ==
  { p \in [ display : {"ok", "none", "initFails"},
            advertised : ExtensionSets,
            configs : ConfigSets,
            initialized : {FALSE},
            contexts : {{}}, surfaces : {{}},
            curContext : {EGL_NO_CONTEXT}, curSurface : {EGL_NO_SURFACE} ] :
      p.display # "ok" => p.advertised = {} /\ p.configs = {} }

\* What the platform answers during one CreateWideColorCtx(mode) call:
\*   cnt   the count eglChooseConfig reports when a config matches
\*   ctx, geom, surf, bind   whether eglCreateContext,
\*         ANativeWindow_setBuffersGeometry, eglCreateWindowSurface and
\*         eglMakeCurrent are willing to succeed
\*   w, h  the size eglQuerySurface reports
\* Answers to calls that come after the first refusal are never asked for
\* and are fixed to one value.
Outcomes ==
  LET Answer(cnt, ctx, geom, surf, bind, w, h) ==
        [ cnt |-> cnt, ctx |-> ctx, geom |-> geom, surf |-> surf,
          bind |-> bind, w |-> w, h |-> h ]
  IN { Answer(c, TRUE, TRUE, TRUE, TRUE, 1, 1) : c \in 2..MaxCfgCount }
     \cup { Answer(1, FALSE, TRUE, TRUE, TRUE, 1, 1),
            Answer(1, TRUE, FALSE, TRUE, TRUE, 1, 1),
            Answer(1, TRUE, TRUE, FALSE, TRUE, 1, 1),
            Answer(1, TRUE, TRUE, TRUE, FALSE, 1, 1) }
     \cup { Answer(1, TRUE, TRUE, TRUE, TRUE, w, h) : w \in Dims, h \in Dims }

eglGetDisplay(p) ==
  IF p.display = "none" THEN EGL_NO_DISPLAY ELSE EGL_DEFAULT_DISPLAY

\* eglInitialize: the platform afterwards
eglInitialize(p, dpy) ==
  IF dpy = EGL_DEFAULT_DISPLAY /\ p.display = "ok"
    THEN [p EXCEPT !.initialized = TRUE]
    ELSE p

\* eglQueryString(dpy, EGL_EXTENSIONS): the extension string, or a null
\* pointer on a display that is absent or not initialised
eglQueryString(p, dpy) ==
  IF dpy = EGL_DEFAULT_DISPLAY /\ p.initialized
    THEN [ null |-> FALSE, str |-> ExtensionString(p.advertised) ]
    ELSE [ null |-> TRUE, str |-> << >> ]

\* std::string(const char*) on a null pointer is undefined: the process may
\* die there, or go on with whatever characters the read produced
StringFromNull == [ crash : BOOLEAN, text : ExtensionSets ]

\* eglChooseConfig(dpy, attributes, &config, 1, &cfgCount): status and the
\* value left in cfgCount (which enters as 1 and is not written on failure)
eglChooseConfig(p, dpy, attributes, o) ==
  LET ok == dpy = EGL_DEFAULT_DISPLAY /\ p.initialized
  IN [ status |-> ok,
       cfgCount |-> IF ~ok THEN 1
                    ELSE IF attributes \in p.configs THEN o.cnt ELSE 0 ]

\* eglCreateContext: the new handle, or EGL_NO_CONTEXT
eglCreateContext(p, dpy, o) ==
  LET free == ContextHandles \ p.contexts
  IN IF dpy = EGL_DEFAULT_DISPLAY /\ p.initialized /\ o.ctx /\ free # {}
       THEN CHOOSE c \in free : \A d \in free : c <= d
       ELSE EGL_NO_CONTEXT

\* ANativeWindow_setBuffersGeometry: the result code
ANativeWindow_setBuffersGeometry(o) == IF o.geom THEN 0 ELSE -1

\* eglCreateWindowSurface: the new handle, or EGL_NO_SURFACE (always so when
\* the window already carries a surface)
eglCreateWindowSurface(p, dpy, o) ==
  IF dpy = EGL_DEFAULT_DISPLAY /\ p.initialized /\ o.surf /\ p.surfaces = {}
    THEN EGL_WINDOW_SURFACE
    ELSE EGL_NO_SURFACE

\* eglMakeCurrent(dpy, surface, surface, context): status and platform
eglMakeCurrent(p, dpy, surface, context, o) ==
  IF surface = EGL_NO_SURFACE /\ context = EGL_NO_CONTEXT
    THEN [ status |-> dpy = EGL_DEFAULT_DISPLAY,
           p |-> IF dpy = EGL_DEFAULT_DISPLAY
                   THEN [p EXCEPT !.curContext = EGL_NO_CONTEXT,
                                  !.curSurface = EGL_NO_SURFACE]
                   ELSE p ]
    ELSE IF /\ dpy = EGL_DEFAULT_DISPLAY /\ p.initialized /\ o.bind
            /\ surface \in p.surfaces /\ context \in p.contexts
      THEN [ status |-> TRUE,
             p |-> [p EXCEPT !.curContext = context, !.curSurface = surface] ]
      ELSE [ status |-> FALSE, p |-> p ]

eglDestroyContext(p, dpy, context) ==
  IF dpy = EGL_DEFAULT_DISPLAY /\ p.initialized
    THEN [p EXCEPT !.contexts = @ \ {context}]
    ELSE p

eglDestroySurface(p, dpy, surface) ==
  IF dpy = EGL_DEFAULT_DISPLAY /\ p.initialized
    THEN [p EXCEPT !.surfaces = @ \ {surface}]
    ELSE p

\* eglTerminate releases every context and surface of the display
eglTerminate(p, dpy) ==
  IF dpy = EGL_DEFAULT_DISPLAY
    THEN [p EXCEPT !.initialized = FALSE, !.contexts = {}, !.surfaces = {},
                   !.curContext = EGL_NO_CONTEXT,
                   !.curSurface = EGL_NO_SURFACE]
    ELSE p

---------------------------------------------------------------------------
(* The engine *)

\* the engine's fields as one record
Engine ==
  [ display_ |-> display_, eglContext_ |-> eglContext_, surface_ |-> surface_,
    dispColorSpace_ |-> dispColorSpace_, dispFormat_ |-> dispFormat_,
    renderTargetWidth_ |-> renderTargetWidth_,
    renderTargetHeight_ |-> renderTargetHeight_ ]

\* The results of CreateWideColorCtx(mode) are records:
\*   e, p   engine fields and platform after the call
\*   ret    "true", "false", or "abort" when the ASSERT fires
\*   step   the step at which the call ended
\*   cfg    what eglChooseConfig answered
\*   log    the platform calls made, in order

\* ASSERT(cond, ...): the process goes on when cond holds and aborts otherwise
AssertAborts(cond) == ~cond

\* ConfigRejected with the count test weakened to "no config at all"
ConfigRejected_ZeroOnly(cfg) == ~cfg.status \/ cfg.cfgCount = 0

\* if (!status || cfgCount != 1)
ConfigRejected(cfg) == ~cfg.status \/ cfg.cfgCount # 1

\* if (eglContext_ == EGL_NO_CONTEXT) return false
ContextFailed(e, p, cfg) ==
  [ e |-> e, p |-> p, ret |-> "false", step |-> "context", cfg |-> cfg,
    log |-> <<"eglChooseConfig", "eglCreateContext">> ]

\* GeometryFailed that resets the field and leaves the context on the platform
GeometryFailed_NoDestroy(e, p, cfg) ==
  [ e |-> [e EXCEPT !.eglContext_ = EGL_NO_CONTEXT],
    p |-> p,
    ret |-> "false", step |-> "geometry", cfg |-> cfg,
    log |-> <<"eglChooseConfig", "eglCreateContext", "eglGetConfigAttrib",
              "ANativeWindow_setBuffersGeometry">> ]

\* if (res < 0) { eglDestroyContext; eglContext_ = EGL_NO_CONTEXT; return false }
GeometryFailed(e, p, cfg) ==
  [ e |-> [e EXCEPT !.eglContext_ = EGL_NO_CONTEXT],
    p |-> eglDestroyContext(p, e.display_, e.eglContext_),
    ret |-> "false", step |-> "geometry", cfg |-> cfg,
    log |-> <<"eglChooseConfig", "eglCreateContext", "eglGetConfigAttrib",
              "ANativeWindow_setBuffersGeometry", "eglDestroyContext">> ]

\* SurfaceFailed without the roll-back of the context
SurfaceFailed_KeepsContext(e, p, cfg) ==
  [ e |-> e, p |-> p, ret |-> "false", step |-> "surface", cfg |-> cfg,
    log |-> <<"eglChooseConfig", "eglCreateContext", "eglGetConfigAttrib",
              "ANativeWindow_setBuffersGeometry", "eglCreateWindowSurface">> ]

\* if (surface_ == EGL_NO_SURFACE) { eglDestroyContext;
\*                                   eglContext_ = EGL_NO_CONTEXT; return false }
SurfaceFailed(e, p, cfg) ==
  [ e |-> [e EXCEPT !.eglContext_ = EGL_NO_CONTEXT],
    p |-> eglDestroyContext(p, e.display_, e.eglContext_),
    ret |-> "false", step |-> "surface", cfg |-> cfg,
    log |-> <<"eglChooseConfig", "eglCreateContext", "eglGetConfigAttrib",
              "ANativeWindow_setBuffersGeometry", "eglCreateWindowSurface",
              "eglDestroyContext">> ]

\* Created without the record of appWideColorCfg[mode] in the engine
Created_SkipsRecord(e, p, mode, o, cfg) ==
  [ e |-> [e EXCEPT !.renderTargetWidth_ = o.w,
                    !.renderTargetHeight_ = o.h],
    p |-> p, ret |-> "true", step |-> "done", cfg |-> cfg,
    log |-> <<"eglChooseConfig", "eglCreateContext", "eglGetConfigAttrib",
              "ANativeWindow_setBuffersGeometry", "eglCreateWindowSurface",
              "eglMakeCurrent", "eglQuerySurface", "eglQuerySurface">> ]

\* the tail of CreateWideColorCtx(mode) once eglMakeCurrent has succeeded
Created(e, p, mode, o, cfg) ==
  [ e |-> [e EXCEPT !.dispColorSpace_ = appWideColorCfg[mode + 1].space_,
                    !.dispFormat_ = appWideColorCfg[mode + 1].fmt_,
                    !.renderTargetWidth_ = o.w,
                    !.renderTargetHeight_ = o.h],
    p |-> p, ret |-> "true", step |-> "done", cfg |-> cfg,
    log |-> <<"eglChooseConfig", "eglCreateContext", "eglGetConfigAttrib",
              "ANativeWindow_setBuffersGeometry", "eglCreateWindowSurface",
              "eglMakeCurrent", "eglQuerySurface", "eglQuerySurface">> ]

\* WithContext in which a refused eglMakeCurrent is reported as a failure of
\* the mode instead of stopping the process
WithContext_BindReturnsFalse(e1, p1, mode, o, cfg) ==
  LET srf == eglCreateWindowSurface(p1, e1.display_, o)
      p2 == IF srf = EGL_NO_SURFACE THEN p1
            ELSE [p1 EXCEPT !.surfaces = @ \cup {srf}]
      e2 == [e1 EXCEPT !.surface_ = srf]
      cur == eglMakeCurrent(p2, e2.display_, e2.surface_, e2.eglContext_, o)
  IN IF e2.surface_ = EGL_NO_SURFACE THEN SurfaceFailed(e2, p2, cfg)
     ELSE IF ~cur.status
       THEN [ e |-> e2, p |-> cur.p, ret |-> "false", step |-> "bind",
              cfg |-> cfg,
              log |-> <<"eglChooseConfig", "eglCreateContext",
                        "eglGetConfigAttrib",
                        "ANativeWindow_setBuffersGeometry",
                        "eglCreateWindowSurface", "eglMakeCurrent">> ]
     ELSE Created(e2, cur.p, mode, o, cfg)

\* CreateWideColorCtx(mode) from surface creation on: e1, p1 are the engine
\* and the platform once the context is made and the window geometry is set
WithContext(e1, p1, mode, o, cfg) ==
  LET srf == eglCreateWindowSurface(p1, e1.display_, o)
      p2 == IF srf = EGL_NO_SURFACE THEN p1
            ELSE [p1 EXCEPT !.surfaces = @ \cup {srf}]
      e2 == [e1 EXCEPT !.surface_ = srf]
      cur == eglMakeCurrent(p2, e2.display_, e2.surface_, e2.eglContext_, o)
  IN IF e2.surface_ = EGL_NO_SURFACE THEN SurfaceFailed(e2, p2, cfg)
     ELSE IF AssertAborts(cur.status)
       THEN [ e |-> e2, p |-> cur.p, ret |-> "abort", step |-> "bind",
              cfg |-> cfg,
              log |-> <<"eglChooseConfig", "eglCreateContext",
                        "eglGetConfigAttrib",
                        "ANativeWindow_setBuffersGeometry",
                        "eglCreateWindowSurface", "eglMakeCurrent">> ]
     ELSE Created(e2, cur.p, mode, o, cfg)

\* bool CreateWideColorCtx(WIDECOLOR_MODE mode), from the EGL attribute list
\* on (what precedes it computes local matrices and tables only).
\*   e, p  engine fields and platform before the call;  o  the platform's
\*   answers
CreateWideColorCtxMode(e, p, mode, o) ==
  LET cfg == eglChooseConfig(p, e.display_, ConfigAttributes(mode), o)
      ctx == eglCreateContext(p, e.display_, o)
      p1 == IF ctx = EGL_NO_CONTEXT THEN p
            ELSE [p EXCEPT !.contexts = @ \cup {ctx}]
      e1 == [e EXCEPT !.eglContext_ = ctx]
  IN IF ConfigRejected(cfg)
       THEN [ e |-> e, p |-> p, ret |-> "false", step |-> "config",
              cfg |-> cfg, log |-> <<"eglChooseConfig">> ]
     ELSE IF e1.eglContext_ = EGL_NO_CONTEXT THEN ContextFailed(e1, p1, cfg)
     ELSE IF ANativeWindow_setBuffersGeometry(o) < 0
       THEN GeometryFailed(e1, p1, cfg)
     ELSE WithContext(e1, p1, mode, o, cfg)

\* DestroyWideColorCtx that forgets display_ = EGL_NO_DISPLAY
DestroyWideColorCtx_KeepsDisplay(e, p) ==
  IF e.display_ = EGL_NO_DISPLAY
    THEN [ e |-> e, p |-> p, log |-> << >> ]
  ELSE
  LET p1 == eglMakeCurrent(p, e.display_, EGL_NO_SURFACE, EGL_NO_CONTEXT,
                           [bind |-> TRUE]).p
      p2 == IF e.eglContext_ # EGL_NO_CONTEXT
              THEN eglDestroyContext(p1, e.display_, e.eglContext_) ELSE p1
      p3 == IF e.surface_ # EGL_NO_SURFACE
              THEN eglDestroySurface(p2, e.display_, e.surface_) ELSE p2
      p4 == eglTerminate(p3, e.display_)
  IN [ e |-> [e EXCEPT !.eglContext_ = EGL_NO_CONTEXT,
                       !.surface_ = EGL_NO_SURFACE,
                       !.dispColorSpace_ = "INVALID",
                       !.dispFormat_ = "INVALID_FORMAT"],
       p |-> p4,
       log |-> <<"eglMakeCurrent">>
               \o (IF e.eglContext_ # EGL_NO_CONTEXT
                     THEN <<"eglDestroyContext">> ELSE << >>)
               \o (IF e.surface_ # EGL_NO_SURFACE
                     THEN <<"eglDestroySurface">> ELSE << >>)
               \o <<"eglTerminate">> ]

\* void DestroyWideColorCtx(): engine, platform and platform calls after it
DestroyWideColorCtx(e, p) ==
  IF e.display_ = EGL_NO_DISPLAY
    THEN [ e |-> e, p |-> p, log |-> << >> ]
  ELSE
  LET p1 == eglMakeCurrent(p, e.display_, EGL_NO_SURFACE, EGL_NO_CONTEXT,
                           [bind |-> TRUE]).p
      p2 == IF e.eglContext_ # EGL_NO_CONTEXT
              THEN eglDestroyContext(p1, e.display_, e.eglContext_) ELSE p1
      p3 == IF e.surface_ # EGL_NO_SURFACE
              THEN eglDestroySurface(p2, e.display_, e.surface_) ELSE p2
      p4 == eglTerminate(p3, e.display_)
  IN [ e |-> [e EXCEPT !.display_ = EGL_NO_DISPLAY,
                       !.eglContext_ = EGL_NO_CONTEXT,
                       !.surface_ = EGL_NO_SURFACE,
                       !.dispColorSpace_ = "INVALID",
                       !.dispFormat_ = "INVALID_FORMAT"],
       p |-> p4,
       log |-> <<"eglMakeCurrent">>
               \o (IF e.eglContext_ # EGL_NO_CONTEXT
                     THEN <<"eglDestroyContext">> ELSE << >>)
               \o (IF e.surface_ # EGL_NO_SURFACE
                     THEN <<"eglDestroySurface">> ELSE << >>)
               \o <<"eglTerminate">> ]

\* the engine's fields take the values of record e
SetEngine(e) ==
  /\ display_' = e.display_
  /\ eglContext_' = e.eglContext_
  /\ surface_' = e.surface_
  /\ dispColorSpace_' = e.dispColorSpace_
  /\ dispFormat_' = e.dispFormat_
  /\ renderTargetWidth_' = e.renderTargetWidth_
  /\ renderTargetHeight_' = e.renderTargetHeight_

\* ModesFor whose lists lack the trailing legacy mode
ModesFor_NoLegacyTail(passthru) ==
  IF passthru
    THEN << P3_PASSTHROUGH_R8G8B8A8_REV, P3_PASSTHROUGH_R10G10B10A2_REV,
            P3_PASSTHROUGH_FP16 >>
    ELSE << P3_R8G8B8A8_REV, P3_R10G10B10A2_REV, P3_FP16 >>

\* ModesFor that never overwrites the default entries
ModesFor_AlwaysDefault(passthru) ==
  << P3_R8G8B8A8_REV, P3_R10G10B10A2_REV, P3_FP16, SRGBA_R8G8B8A8_REV >>

\* ModesFor that leaves modes[2] at its default when passthrough is found
ModesFor_KeepsThirdDefault(passthru) ==
  IF passthru
    THEN << P3_PASSTHROUGH_R8G8B8A8_REV, P3_PASSTHROUGH_R10G10B10A2_REV,
            P3_FP16, SRGBA_R8G8B8A8_REV >>
    ELSE << P3_R8G8B8A8_REV, P3_R10G10B10A2_REV, P3_FP16,
            SRGBA_R8G8B8A8_REV >>

\* modes[] of CreateWideColorCtx(void) once the passthrough test is made
ModesFor(passthru) ==
  IF passthru
    THEN << P3_PASSTHROUGH_R8G8B8A8_REV, P3_PASSTHROUGH_R10G10B10A2_REV,
            P3_PASSTHROUGH_FP16, SRGBA_R8G8B8A8_REV >>
    ELSE << P3_R8G8B8A8_REV, P3_R10G10B10A2_REV, P3_FP16,
            SRGBA_R8G8B8A8_REV >>

---------------------------------------------------------------------------
(* The numeric helpers *)

\* static_cast to an integer type of the value num / den (den > 0): the
\* fractional part is discarded, towards zero
Truncate(num, den) ==
  IF num >= 0 THEN num \div den ELSE -((-num) \div den)

\* #define CLIP_COLOR(color, max)
CLIP_COLOR(color, max) ==
  IF color > max THEN max ELSE (IF color > 0 THEN color ELSE 0)

\* A matrix coefficient is a float; the model takes the coefficients that are
\* a whole number h of halves of 1/1024, the coefficient being h / 2048, so
\* that coeff * 1024 + 0.5f is (h + 1) / 2 exactly.

\* FixedCoefficient with the scale 512 in place of 1024
FixedCoefficient_Scale512(h) == Truncate(h + 2, 4)

\* static_cast<int32_t>(transMatrix(i, j) * 1024 + 0.5f)
FixedCoefficient(h) == Truncate(h + 1, 2)

\* the nine coefficients m00 .. m22 of a matrix given in halves
FixedMatrix(transMatrix) ==
  [ i \in 1..3 |-> [ j \in 1..3 |-> FixedCoefficient(transMatrix[i][j]) ] ]

\* (m0 * srcR + m1 * srcG + m2 * srcB + 512) >> 10, clipped and stored in a
\* byte; >> on int32_t is the division by 1024 rounded down
Channel(row, srcR, srcG, srcB) ==
  CLIP_COLOR((row[1] * srcR + row[2] * srcG + row[3] * srcB + 512) \div 1024,
             255) % 256

\* TransformR8G8B8: the three bytes written to dst
TransformR8G8B8(srcR, srcG, srcB, transMatrix) ==
  LET m == FixedMatrix(transMatrix)
  IN << Channel(m[1], srcR, srcG, srcB),
        Channel(m[2], srcR, srcG, srcB),
        Channel(m[3], srcR, srcG, srcB) >>

\* uint32_t maxPixeli = (1 << 8) - 1
maxPixeli == 255

\* The gamma exponents of the model are whole numbers, and the float
\* arithmetic of the table builders is carried out in thousandths.

\* pow(x, gamma) for x in thousandths
RECURSIVE pow(_, _)
pow(x, gamma) ==
  IF gamma = 0 THEN 1000 ELSE (x * pow(x, gamma - 1)) \div 1000

\* static_cast<uint8_t>(CLIP_COLOR(val, maxPixelf)) for val in thousandths
ClippedByte(val) == Truncate(CLIP_COLOR(val, maxPixeli * 1000), 1000) % 256

\* CreateGammaEncodeTable: maxLinearVal = static_cast<uint32_t>(0.0031308f * 255)
maxLinearValEncode == Truncate(31308 * maxPixeli, 10000000)

\* CreateGammaEncodeTable, first loop: idx * 12.92 + .5f for idx < maxLinearVal
EncodeLinear ==
  [ i \in 1..maxLinearValEncode |->
      Truncate((i - 1) * 1292 + 50, 100) % 256 ]

\* CreateGammaEncodeTable, second loop:
\*   (1.055f * pow(idx / maxPixelf, gamma) - 0.055f) * maxPixeli + 0.5f
EncodePower(gamma) ==
  [ i \in 1..(maxPixeli - maxLinearValEncode + 1) |->
      LET idx == maxLinearValEncode + i - 1
          val == (1055 * pow((idx * 1000) \div maxPixeli, gamma)) \div 1000 - 55
      IN ClippedByte(val * maxPixeli + 500) ]

\* static void CreateGammaEncodeTable(float gamma, std::vector<uint8_t>& table)
\* (table.resize(0) empties the vector before the entries are pushed)
CreateGammaEncodeTable(gamma, tbl) ==
  IF AssertAborts(gamma < 1)
    THEN [ aborted |-> TRUE, table |-> tbl ]
    ELSE [ aborted |-> FALSE,
           table |-> << >> \o EncodeLinear \o EncodePower(gamma) ]

\* CreateGammaDecodeTable: maxLinearVal = static_cast<uint32_t>(0.04045 * 255)
maxLinearValDecode == Truncate(4045 * maxPixeli, 100000)

\* CreateGammaDecodeTable, first loop: idx / 12.92 + .5f for idx < maxLinearVal
DecodeLinear ==
  [ i \in 1..maxLinearValDecode |->
      Truncate(200 * (i - 1) + 1292, 2584) % 256 ]

\* CreateGammaDecodeTable, second loop:
\*   pow((idx / maxPixelf + 0.055f) / 1.055f, gamma) * maxPixeli + 0.5f
DecodePower(gamma) ==
  [ i \in 1..(maxPixeli - maxLinearValDecode + 1) |->
      LET idx == maxLinearValDecode + i - 1
          val == (((idx * 1000) \div maxPixeli + 55) * 1000) \div 1055
      IN ClippedByte(pow(val, gamma) * maxPixeli + 500) ]

\* static void CreateGammaDecodeTable(float gamma, std::vector<uint8_t>& table)
\* (the entries are pushed onto whatever the vector holds)
CreateGammaDecodeTable(gamma, tbl) ==
  IF AssertAborts(gamma > 1)
    THEN [ aborted |-> TRUE, table |-> tbl ]
    ELSE [ aborted |-> FALSE,
           table |-> tbl \o DecodeLinear \o DecodePower(gamma) ]

---------------------------------------------------------------------------
(* State machine *)

NotAsked == [ asked |-> FALSE, status |-> TRUE, cfgCount |-> 1 ]

\* no file-static helper has been called
NoCall == [ fn |-> "none" ]
Asked(cfg) == [ asked |-> TRUE, status |-> cfg.status, cfgCount |-> cfg.cfgCount ]

\* no display, no context, no surface, colour space and format invalid
Uninitialized ==
  /\ display_ = EGL_NO_DISPLAY
  /\ eglContext_ = EGL_NO_CONTEXT
  /\ surface_ = EGL_NO_SURFACE
  /\ dispColorSpace_ = "INVALID"
  /\ dispFormat_ = "INVALID_FORMAT"

Init ==
  /\ display_ = EGL_NO_DISPLAY
  /\ eglContext_ = EGL_NO_CONTEXT
  /\ surface_ = EGL_NO_SURFACE
  /\ dispColorSpace_ = "INVALID"
  /\ dispFormat_ = "INVALID_FORMAT"
  /\ renderTargetWidth_ = 0
  /\ renderTargetHeight_ = 0
  /\ egl \in Platforms
  /\ pc = "idle"
  /\ index = 0
  /\ modes = << >>
  /\ lastOp = "none"
  /\ ret = "none"
  /\ failStep = "none"
  /\ attempts = << >>
  /\ calls = << >>
  /\ cfgReply = NotAsked
  /\ fresh = TRUE
  /\ call = NoCall
  /\ table = << >>

\* CreateWideColorCtx(void) has opened the display (dpy, platform p) and
\* goes to `next` with mode list `list` after `queries` extension queries
Entered(dpy, p, queries, next, list) ==
  /\ display_' = dpy
  /\ egl' = p
  /\ UNCHANGED <<eglContext_, surface_, dispColorSpace_, dispFormat_,
                 renderTargetWidth_, renderTargetHeight_>>
  /\ lastOp' = "CreateWideColorCtx"
  /\ ret' = "none"
  /\ failStep' = "none"
  /\ cfgReply' = NotAsked
  /\ fresh' = Uninitialized
  /\ attempts' = << >>
  /\ index' = 0
  /\ calls' = <<"eglGetDisplay", "eglInitialize"
                >> \o [i \in 1..queries |-> "eglQueryString"]
  /\ pc' = next
  /\ modes' = list
  /\ UNCHANGED <<call, table>>

\* the tests on the extension strings eglExt1 (first query) and eglExt2
\* (second query, made when the first test fails)
Selected(dpy, p, eglExt1, eglExt2) ==
  IF CheckRequiredEGLExt(eglExt1, passthruExt)
    THEN Entered(dpy, p, 1, "loop", ModesFor(TRUE))
  ELSE IF ~CheckRequiredEGLExt(eglExt2, p3Exts)
    THEN Entered(dpy, p, 2, "legacy", << >>)
  ELSE Entered(dpy, p, 2, "loop", ModesFor(FALSE))

\* bool CreateWideColorCtx(void), up to the choice of the mode list
CreateWideColorCtx ==
  /\ pc = "idle"
  /\ LET dpy == eglGetDisplay(egl)
         p1 == eglInitialize(egl, dpy)
         q == eglQueryString(p1, dpy)
     IN IF ~q.null
          THEN Selected(dpy, p1, q.str, q.str)
          ELSE \E ub1 \in StringFromNull :
                 IF ub1.crash
                   THEN ub1.text = {} /\ Entered(dpy, p1, 1, "aborted", << >>)
                 ELSE IF CheckRequiredEGLExt(ExtensionString(ub1.text),
                                             passthruExt)
                   THEN Entered(dpy, p1, 1, "loop", ModesFor(TRUE))
                 ELSE \E ub2 \in StringFromNull :
                        IF ub2.crash
                          THEN /\ ub2.text = {}
                               /\ Entered(dpy, p1, 2, "aborted", << >>)
                          ELSE Selected(dpy, p1, ExtensionString(ub1.text),
                                        ExtensionString(ub2.text))

\* what a CreateWideColorCtx(mode) call made by an entry point leaves
Attempted(mode, r) ==
  /\ SetEngine(r.e)
  /\ egl' = r.p
  /\ attempts' = Append(attempts, mode)
  /\ failStep' = r.step
  /\ cfgReply' = Asked(r.cfg)
  /\ calls' = r.log
  /\ UNCHANGED <<fresh, call, table>>

\* an entry point returns value v
Returned(v) ==
  /\ pc' = "idle"
  /\ ret' = v
  /\ modes' = << >>
  /\ index' = 0

\* CreateWideColorCtxLoop that goes on to the next entry of modes[] after a
\* mode has succeeded
CreateWideColorCtxLoop_NoReturnOnSuccess ==
  /\ pc = "loop"
  /\ \E o \in Outcomes :
     \E mode \in {modes[index + 1]} :
     \E r \in {CreateWideColorCtxMode(Engine, egl, mode, o)} :
          /\ Attempted(mode, r)
          /\ UNCHANGED lastOp
          /\ IF r.ret = "abort"
               THEN pc' = "aborted" /\ ret' = "none" /\ UNCHANGED <<modes, index>>
             ELSE IF index + 1 = Len(modes)
               THEN Returned(r.ret)
             ELSE /\ pc' = "loop" /\ ret' = "none"
                  /\ index' = index + 1 /\ UNCHANGED modes

\* CreateWideColorCtx(void): one turn of the loop over modes[]
CreateWideColorCtxLoop ==
  /\ pc = "loop"
  /\ \E o \in Outcomes :
     \E mode \in {modes[index + 1]} :
     \E r \in {CreateWideColorCtxMode(Engine, egl, mode, o)} :
          /\ Attempted(mode, r)
          /\ UNCHANGED lastOp
          /\ IF r.ret = "true"
               THEN Returned("true")
             ELSE IF r.ret = "abort"
               THEN pc' = "aborted" /\ ret' = "none" /\ UNCHANGED <<modes, index>>
             ELSE IF index + 1 = Len(modes)
               THEN Returned("false")
             ELSE /\ pc' = "loop" /\ ret' = "none"
                  /\ index' = index + 1 /\ UNCHANGED modes

\* CreateWideColorCtx(void): return CreateWideColorCtx(SRGBA_R8G8B8A8_REV)
CreateWideColorCtxLegacy ==
  /\ pc = "legacy"
  /\ \E o \in Outcomes :
     \E r \in {CreateWideColorCtxMode(Engine, egl, SRGBA_R8G8B8A8_REV, o)} :
          /\ Attempted(SRGBA_R8G8B8A8_REV, r)
          /\ UNCHANGED lastOp
          /\ IF r.ret = "abort"
               THEN pc' = "aborted" /\ ret' = "none" /\ UNCHANGED <<modes, index>>
               ELSE Returned(r.ret)

\* a caller invokes CreateWideColorCtx(mode) directly
CallCreateWideColorCtxMode ==
  /\ pc = "idle"
  /\ \E mode \in WIDECOLOR_MODE, o \in Outcomes :
     \E r \in {CreateWideColorCtxMode(Engine, egl, mode, o)} :
          /\ SetEngine(r.e)
          /\ egl' = r.p
          /\ attempts' = <<mode>>
          /\ failStep' = r.step
          /\ cfgReply' = Asked(r.cfg)
          /\ fresh' = Uninitialized
          /\ calls' = r.log
          /\ lastOp' = "CreateWideColorCtxMode"
          /\ UNCHANGED <<call, table>>
          /\ IF r.ret = "abort"
               THEN pc' = "aborted" /\ ret' = "none" /\ UNCHANGED <<modes, index>>
               ELSE Returned(r.ret)

\* a caller invokes DestroyWideColorCtx()
CallDestroyWideColorCtx ==
  /\ pc = "idle"
  /\ \E r \in {DestroyWideColorCtx(Engine, egl)} :
        /\ SetEngine(r.e)
        /\ egl' = r.p
        /\ calls' = r.log
        /\ lastOp' = "DestroyWideColorCtx"
        /\ UNCHANGED <<call, table>>
        /\ ret' = "none"
        /\ failStep' = "none"
        /\ cfgReply' = NotAsked
        /\ fresh' = Uninitialized
        /\ attempts' = << >>
        /\ modes' = << >>
        /\ index' = 0
        /\ pc' = "idle"

Next ==
  \/ CreateWideColorCtx
  \/ CreateWideColorCtxLoop
  \/ CreateWideColorCtxLegacy
  \/ CallCreateWideColorCtxMode
  \/ CallDestroyWideColorCtx

Spec == Init /\ [][Next]_vars

\* Every platform call blocks and returns, so a CreateWideColorCtx(void) that
\* is under way takes its next step
SpecFair ==
  /\ Spec
  /\ WF_vars(CreateWideColorCtxLoop)
  /\ WF_vars(CreateWideColorCtxLegacy)

---------------------------------------------------------------------------
(* The file-static helpers on their own: a caller hands CheckRequiredEGLExt *)
(* and TransformR8G8B8 arguments fixed at the start, and builds gamma       *)
(* tables on one vector, one build after the other.                         *)

\* the required names a caller may ask for
Tokens ==
  { EGL_KHR_gl_colorspace, EGL_EXT_gl_colorspace_display_p3,
    GL_EXT_gl_colorspace_display_p3_passthrough,
    EGL_EXT_gl_colorspace_display_p3_linear }

\* the std::vector<std::string> arguments: up to MaxRequired names
RequiredLists == UNION { [1..n -> Tokens] : n \in 0..MaxRequired }

\* the displays handed to CheckRequiredEGLExt: each display of the model
\* after eglGetDisplay and eglInitialize
HelperPlatforms ==
  { eglInitialize(p, eglGetDisplay(p)) : p \in { q \in Platforms : q.configs = {} } }

\* the matrix with `diag` on the diagonal and `off` elsewhere (in halves)
Matrix(diag, off) ==
  [ i \in 1..3 |-> [ j \in 1..3 |-> IF i = j THEN diag ELSE off ] ]

\* the identity matrix: 1.0f is 2048 halves of 1/1024
IdentityMatrix == Matrix(2 * 1024, 0)

\* matrices with small coefficients of either sign
SmallMatrices ==
  { Matrix(a, b) : a \in (0 - MaxCoeff)..MaxCoeff, b \in (0 - MaxCoeff)..MaxCoeff }

Bytes == 0..maxPixeli

\* byte triples in which two channels are 0 or full and the third is any byte
AxisTriples ==
  LET Ends == {0, maxPixeli}
  IN { <<c, x, y>> : c \in Bytes, x \in Ends, y \in Ends }
     \cup { <<x, c, y>> : c \in Bytes, x \in Ends, y \in Ends }
     \cup { <<x, y, c>> : c \in Bytes, x \in Ends, y \in Ends }

\* byte triples over 0, 1 and full
CornerTriples ==
  LET Few == {0, 1, maxPixeli}
  IN { <<x, y, z>> : x \in Few, y \in Few, z \in Few }

\* the calls of the stateless helpers a behaviour may start with
PendingCalls ==
  { [ fn |-> "CheckRequiredEGLExt", done |-> FALSE, p |-> p, exts |-> exts ] :
      p \in HelperPlatforms, exts \in RequiredLists }
  \cup { [ fn |-> "TransformR8G8B8", done |-> FALSE, src |-> t,
           transMatrix |-> IdentityMatrix ] : t \in AxisTriples }
  \cup { [ fn |-> "TransformR8G8B8", done |-> FALSE, src |-> t,
           transMatrix |-> m ] : t \in CornerTriples, m \in SmallMatrices }

Gammas == 0..MaxGamma

InitHelpers ==
  /\ display_ = EGL_NO_DISPLAY
  /\ eglContext_ = EGL_NO_CONTEXT
  /\ surface_ = EGL_NO_SURFACE
  /\ dispColorSpace_ = "INVALID"
  /\ dispFormat_ = "INVALID_FORMAT"
  /\ renderTargetWidth_ = 0
  /\ renderTargetHeight_ = 0
  /\ egl \in { p \in Platforms : p.display = "none" }
  /\ pc = "idle"
  /\ index = 0
  /\ modes = << >>
  /\ lastOp = "none"
  /\ ret = "none"
  /\ failStep = "none"
  /\ attempts = << >>
  /\ calls = << >>
  /\ cfgReply = NotAsked
  /\ fresh = TRUE
  /\ call \in {NoCall} \cup PendingCalls
  /\ table = << >>

\* what no helper touches
helperFrame ==
  <<display_, eglContext_, surface_, dispColorSpace_, dispFormat_,
    renderTargetWidth_, renderTargetHeight_, egl, index, modes, lastOp, ret,
    failStep, attempts, calls, cfgReply, fresh>>

\* CheckRequiredEGLExt(disp, exts) has searched the string `text`
Checked(text) ==
  /\ call' = [ fn |-> "CheckRequiredEGLExt", done |-> TRUE, p |-> call.p,
               exts |-> call.exts, crashed |-> FALSE, text |-> text,
               out |-> CheckRequiredEGLExt(ExtensionString(text), call.exts),
               searched |-> SearchedFrom(ExtensionString(text), call.exts, 1) ]
  /\ pc' = "idle"

\* static bool CheckRequiredEGLExt(EGLDisplay disp, std::vector<std::string>&)
CallCheckRequiredEGLExt ==
  /\ pc = "idle"
  /\ call.fn = "CheckRequiredEGLExt" /\ ~call.done
  /\ LET q == eglQueryString(call.p, eglGetDisplay(call.p))
     IN IF ~q.null THEN Checked(call.p.advertised)
        ELSE \E ub \in StringFromNull :
               IF ub.crash
                 THEN /\ ub.text = {}
                      /\ call' = [ fn |-> "CheckRequiredEGLExt", done |-> TRUE,
                                   p |-> call.p, exts |-> call.exts,
                                   crashed |-> TRUE, text |-> {},
                                   out |-> FALSE, searched |-> 0 ]
                      /\ pc' = "aborted"
                 ELSE Checked(ub.text)
  /\ UNCHANGED <<helperFrame, table>>

\* static bool TransformR8G8B8(dst, srcR, srcG, srcB, transMatrix)
CallTransformR8G8B8 ==
  /\ pc = "idle"
  /\ call.fn = "TransformR8G8B8" /\ ~call.done
  /\ call' = [ fn |-> "TransformR8G8B8", done |-> TRUE, src |-> call.src,
               transMatrix |-> call.transMatrix,
               m |-> FixedMatrix(call.transMatrix),
               dst |-> TransformR8G8B8(call.src[1], call.src[2], call.src[3],
                                       call.transMatrix) ]
  /\ UNCHANGED <<helperFrame, table, pc>>

\* the caller's vector holds fewer than MaxBuilds builds and no call of
\* another helper is under way
MayBuild ==
  /\ pc = "idle"
  /\ call.fn \in {"none", "CreateGammaEncodeTable", "CreateGammaDecodeTable"}
  /\ Len(table) < MaxBuilds * (maxPixeli + 1)

\* a gamma table builder, called with `gamma` on the caller's vector, left r
Built(fn, gamma, r) ==
  /\ table' = r.table
  /\ call' = [ fn |-> fn, done |-> TRUE, gamma |-> gamma,
               before |-> Len(table), aborted |-> r.aborted ]
  /\ pc' = IF r.aborted THEN "aborted" ELSE "idle"
  /\ UNCHANGED helperFrame

\* a caller invokes CreateGammaEncodeTable(gamma, table)
CallCreateGammaEncodeTable ==
  /\ MayBuild
  /\ \E gamma \in Gammas :
     \E r \in {CreateGammaEncodeTable(gamma, table)} :
       Built("CreateGammaEncodeTable", gamma, r)

\* a caller invokes CreateGammaDecodeTable(gamma, table)
CallCreateGammaDecodeTable ==
  /\ MayBuild
  /\ \E gamma \in Gammas :
     \E r \in {CreateGammaDecodeTable(gamma, table)} :
       Built("CreateGammaDecodeTable", gamma, r)

NextHelpers ==
  \/ CallCheckRequiredEGLExt
  \/ CallTransformR8G8B8
  \/ CallCreateGammaEncodeTable
  \/ CallCreateGammaDecodeTable

SpecHelpers == InitHelpers /\ [][NextHelpers]_vars

---------------------------------------------------------------------------
(* Properties *)

\* the last element of a non-empty sequence
Last(seq) == seq[Len(seq)]

IsPrefix(a, b) == Len(a) <= Len(b) /\ a = SubSeq(b, 1, Len(a))

\* `needle` occurs in `hay` as a contiguous run of characters
Occurs(hay, needle) ==
  \E p \in 1..(Len(hay) - Len(needle) + 1) :
    SubSeq(hay, p, p + Len(needle) - 1) = needle

\* CreateWideColorCtx(void) has returned
BestEffortReturned == lastOp = "CreateWideColorCtx" /\ pc = "idle"

\* the (colour space, format) pairs of the mode table
ValidModes ==
  { <<appWideColorCfg[m + 1].space_, appWideColorCfg[m + 1].fmt_>> :
      m \in WIDECOLOR_MODE }

\* C1: CreateWideColorCtx(void) entered with the engine uninitialised is
\* all-or-nothing when it returns: on true the context and the surface are
\* live, bound current, and the colour space and format are those of a mode;
\* on false the context and the surface are none and the colour space and
\* format are still invalid.
C1_AllOrNothing ==
  (BestEffortReturned /\ fresh) =>
    /\ ret \in {"true", "false"}
    /\ ret = "true" =>
         /\ eglContext_ # EGL_NO_CONTEXT /\ eglContext_ \in egl.contexts
         /\ surface_ # EGL_NO_SURFACE /\ surface_ \in egl.surfaces
         /\ egl.curContext = eglContext_ /\ egl.curSurface = surface_
         /\ <<dispColorSpace_, dispFormat_>> \in ValidModes
    /\ ret = "false" =>
         /\ eglContext_ = EGL_NO_CONTEXT /\ surface_ = EGL_NO_SURFACE
         /\ dispColorSpace_ = "INVALID" /\ dispFormat_ = "INVALID_FORMAT"

\* C1 witness: a fresh call succeeded after falling back at least once
C1_Witness ==
  BestEffortReturned /\ fresh /\ ret = "true" /\ Len(attempts) >= 2

\* C2 (as claimed): between calls the context handle and the surface handle
\* are both none or both valid.
C2_BothOrNeither ==
  pc = "idle" =>
    ((eglContext_ = EGL_NO_CONTEXT) <=> (surface_ = EGL_NO_SURFACE))

\* C3: a CreateWideColorCtx(mode) call whose eglChooseConfig fails or reports
\* a count other than 1 returns false, changes no engine field and creates
\* nothing on the platform.
C3_ConfigMatchFails ==
  [][ (cfgReply'.asked /\ (~cfgReply'.status \/ cfgReply'.cfgCount # 1)) =>
        /\ UNCHANGED engineVars
        /\ egl' = egl
        /\ failStep' = "config"
        /\ calls' = <<"eglChooseConfig">>
        /\ pc' # "aborted"
        /\ (pc' = "idle" => ret' = "false") ]_vars

\* C3 witness: a direct call was refused because two configs were reported
C3_Witness ==
  /\ lastOp = "CreateWideColorCtxMode" /\ pc = "idle"
  /\ cfgReply.asked /\ cfgReply.status /\ cfgReply.cfgCount = 2
  /\ ret = "false" /\ eglContext_ = EGL_NO_CONTEXT

\* C4: CreateWideColorCtx(void) returns false only after an attempt on
\* SRGBA_R8G8B8A8_REV that failed, that attempt being the last one made; and
\* when the attempt on the legacy mode succeeds the call returns true.
C4_LegacyLast ==
  BestEffortReturned =>
    /\ ret = "false" =>
         /\ attempts # << >>
         /\ Last(attempts) = SRGBA_R8G8B8A8_REV
         /\ failStep \in {"config", "context", "geometry", "surface"}
    /\ (attempts # << >> /\ Last(attempts) = SRGBA_R8G8B8A8_REV
          /\ failStep = "done") => ret = "true"

\* C4 witness: a wide-gamut chain was exhausted, the legacy mode included
C4_Witness ==
  BestEffortReturned /\ ret = "false" /\ Len(attempts) = 4

\* the extension string of the display contains both passthrough tokens
HasPassthroughTokens ==
  /\ egl.display = "ok"
  /\ Occurs(ExtensionString(egl.advertised), EGL_KHR_gl_colorspace)
  /\ Occurs(ExtensionString(egl.advertised),
            GL_EXT_gl_colorspace_display_p3_passthrough)

\* C5: when the extension string contains both passthrough tokens,
\* CreateWideColorCtx(void) takes the passthrough list: the first mode it
\* attempts is P3_PASSTHROUGH_R8G8B8A8_REV.
C5_PassthroughHead ==
  (lastOp = "CreateWideColorCtx" /\ HasPassthroughTokens) =>
    /\ pc # "legacy"
    /\ pc = "loop" => modes[1] = P3_PASSTHROUGH_R8G8B8A8_REV
    /\ attempts # << >> => attempts[1] = P3_PASSTHROUGH_R8G8B8A8_REV
    /\ pc = "idle" => attempts # << >>

\* C5 witness: the passthrough head was attempted on a display that
\* advertises the standard P3 extension too
C5_Witness ==
  /\ lastOp = "CreateWideColorCtx" /\ HasPassthroughTokens
  /\ "EGL_EXT_gl_colorspace_display_p3" \in egl.advertised
  /\ attempts # << >> /\ attempts[1] = P3_PASSTHROUGH_R8G8B8A8_REV

\* the advertised extensions include the passthrough set / the P3 set
AdvertisesPassthrough ==
  /\ "EGL_KHR_gl_colorspace" \in egl.advertised
  /\ "EGL_EXT_gl_colorspace_display_p3_passthrough" \in egl.advertised
AdvertisesP3 ==
  /\ "EGL_KHR_gl_colorspace" \in egl.advertised
  /\ "EGL_EXT_gl_colorspace_display_p3" \in egl.advertised

\* C6 (as claimed): on a display whose advertised extensions include neither
\* the passthrough set nor the standard P3 set, CreateWideColorCtx(void)
\* makes exactly one attempt, on SRGBA_R8G8B8A8_REV.
C6_LegacyOnly ==
  (lastOp = "CreateWideColorCtx" /\ egl.display = "ok"
     /\ ~AdvertisesPassthrough /\ ~AdvertisesP3) =>
    /\ pc # "loop"
    /\ \A i \in 1..Len(attempts) : attempts[i] = SRGBA_R8G8B8A8_REV
    /\ pc = "idle" => attempts = <<SRGBA_R8G8B8A8_REV>>

\* the display has the 8-8-8-8 fixed config of the legacy mode and no other
OnlyLegacyConfig ==
  egl.configs = { ConfigAttributes(SRGBA_R8G8B8A8_REV) }

C8_DestroyResetsAll ==
  (lastOp = "DestroyWideColorCtx" /\ calls # << >>) =>
    /\ display_ = EGL_NO_DISPLAY
    /\ eglContext_ = EGL_NO_CONTEXT
    /\ surface_ = EGL_NO_SURFACE
    /\ dispColorSpace_ = "INVALID"
    /\ dispFormat_ = "INVALID_FORMAT"
    /\ renderTargetWidth_ = 0
    /\ renderTargetHeight_ = 0
    /\ egl.contexts = {} /\ egl.surfaces = {} /\ ~egl.initialized

\* C9: every DestroyWideColorCtx() leaves the display closed, and one that
\* finds the display closed makes no platform call and changes nothing; so a
\* second call in a row leaves what the first left.
C9_DestroyIdempotent ==
  [][ lastOp' = "DestroyWideColorCtx" =>
        /\ display_' = EGL_NO_DISPLAY
        /\ display_ = EGL_NO_DISPLAY =>
             /\ UNCHANGED engineVars
             /\ egl' = egl
             /\ calls' = << >> ]_vars

\* C9 witness: a call found the display closed by an earlier call that had
\* torn down a created surface
C9_Witness ==
  /\ lastOp = "DestroyWideColorCtx" /\ calls = << >>
  /\ renderTargetWidth_ # 0 /\ display_ = EGL_NO_DISPLAY

\* C10 (as claimed): without a usable display CreateWideColorCtx(void) aborts
\* before any extension query and any per-mode attempt.
C10_NoDisplayIsFatal ==
  (lastOp = "CreateWideColorCtx" /\ egl.display # "ok") =>
    /\ pc = "aborted"
    /\ \A i \in 1..Len(calls) : calls[i] # "eglQueryString"
    /\ attempts = << >>

\* a CreateWideColorCtx entry point (either overload) ran last
CreateRan == lastOp \in {"CreateWideColorCtx", "CreateWideColorCtxMode"}

\* C11: a refused eglMakeCurrent in CreateWideColorCtx(mode), reached after
\* config, context, window geometry and surface all succeeded, stops the
\* process: the call does not return (neither false nor true), no further
\* mode is attempted and nothing runs afterwards; and a call that returns
\* true has its context and surface live and bound current.
C11_BindFailureIsFatal ==
  [][ /\ pc # "aborted"
      /\ failStep' = "bind" =>
           /\ pc' = "aborted" /\ ret' = "none"
           /\ Last(calls') = "eglMakeCurrent"
           /\ eglContext_' # EGL_NO_CONTEXT /\ surface_' # EGL_NO_SURFACE
           /\ egl'.curContext # eglContext_'
      /\ (failStep' = "done" /\ CreateRan') =>
           /\ eglContext_' \in egl'.contexts /\ surface_' \in egl'.surfaces
           /\ egl'.curContext = eglContext_' /\ egl'.curSurface = surface_'
      /\ (pc' = "idle" /\ ret' = "false" /\ CreateRan') =>
           failStep' \in {"config", "context", "geometry", "surface"} ]_vars

\* C11 witness: the bind was refused on the second mode of a chain, with
\* modes left to fall back to
C11_Witness ==
  /\ lastOp = "CreateWideColorCtx" /\ failStep = "bind" /\ pc = "aborted"
  /\ Len(attempts) = 2 /\ Len(modes) = 4

\* a call of helper fn has run to its end
HelperDone(fn) == call.fn = fn /\ call.done

\* C12: on a display that has an extension string, CheckRequiredEGLExt
\* returns true exactly when every required name occurs in that string; it
\* returns true for the empty list, and it returns false at the first name
\* that does not occur, without searching for the names after it.
C12_AllTokensOccur ==
  (HelperDone("CheckRequiredEGLExt") /\ call.p.initialized) =>
    LET str == ExtensionString(call.p.advertised)
        Missing == { k \in 1..Len(call.exts) : ~Occurs(str, call.exts[k]) }
    IN /\ ~call.crashed /\ call.text = call.p.advertised
       /\ call.out <=> Missing = {}
       /\ call.exts = << >> => call.out
       /\ call.out => call.searched = Len(call.exts)
       /\ ~call.out => /\ call.searched \in Missing
                       /\ \A k \in Missing : call.searched <= k

\* C12 witness: of two required names the first occurs only inside a longer
\* advertised name and the second does not occur
C12_Witness ==
  /\ HelperDone("CheckRequiredEGLExt") /\ call.p.initialized
  /\ call.p.advertised = {"EGL_EXT_gl_colorspace_display_p3_linear"}
  /\ call.exts = <<EGL_EXT_gl_colorspace_display_p3, EGL_KHR_gl_colorspace>>
  /\ ~call.out /\ call.searched = 2

\* C13: with the identity matrix TransformR8G8B8 writes the source bytes
\* unchanged: the diagonal coefficients become 1024, the others 0, and
\* (1024 * c + 512) >> 10 is c for every source byte c.
C13_IdentityIsExact ==
  (HelperDone("TransformR8G8B8") /\ call.transMatrix = IdentityMatrix) =>
    /\ call.m = Matrix(1024, 0)
    /\ call.dst = call.src
    /\ \A i \in 1..3 : (1024 * call.src[i] + 512) \div 1024 = call.src[i]

\* C13 witness: the identity was applied to a triple with a mid-range byte
\* between an empty and a full channel
C13_Witness ==
  /\ HelperDone("TransformR8G8B8") /\ call.transMatrix = IdentityMatrix
  /\ call.src = <<0, 127, maxPixeli>> /\ call.dst = <<0, 127, maxPixeli>>

\* C14 (as claimed): a gamma table builder that returns leaves exactly 256
\* entries in the vector, whatever the vector held when it was called.
C14_Exactly256Entries ==
  (call.fn \in {"CreateGammaEncodeTable", "CreateGammaDecodeTable"}
     /\ ~call.aborted) =>
    Len(table) = maxPixeli + 1

\* C18 (as claimed): every fixed-point coefficient TransformR8G8B8 uses is a
\* nearest integer to coeff * 1024 (which is transMatrix[i][j] / 2 here).
C18_RoundsToNearest ==
  HelperDone("TransformR8G8B8") =>
    \A i \in 1..3, j \in 1..3 :
      2 * call.m[i][j] - call.transMatrix[i][j] \in -1..1

\* the three lists of modes CreateWideColorCtx(void) may go through
Chains == { ModesFor(TRUE), ModesFor(FALSE), <<SRGBA_R8G8B8A8_REV>> }

\* a per-mode attempt ended in a failure that is reported to the caller
NonFatal(step) == step \in {"config", "context", "geometry", "surface"}

\* C15: one CreateWideColorCtx(void) call attempts the modes of its list in
\* the order of the list, each at most once: every turn of the loop attempts
\* the next entry, a failed attempt (config, context, geometry or surface) is
\* followed by the next entry when there is one, and the first success ends
\* the call with true.  Never more than four attempts are made, and a call
\* under way comes to its end.
C15_RankedOrder ==
  /\ [][ lastOp' = "CreateWideColorCtx" =>
           /\ Len(attempts') <= 4
           /\ \E c \in Chains : IsPrefix(attempts', c)
           /\ \A i, j \in 1..Len(attempts') :
                attempts'[i] = attempts'[j] => i = j
           /\ pc' = "loop" =>
                /\ modes' \in Chains /\ index' < Len(modes')
                /\ attempts' = SubSeq(modes', 1, index')
           /\ pc = "loop" =>
                /\ attempts' = Append(attempts, modes[index + 1])
                /\ (NonFatal(failStep') /\ index + 1 < Len(modes)) =>
                     pc' = "loop" /\ index' = index + 1 /\ modes' = modes
                /\ (NonFatal(failStep') /\ index + 1 = Len(modes)) =>
                     pc' = "idle" /\ ret' = "false"
           /\ failStep' = "done" => pc' = "idle" /\ ret' = "true" ]_vars
  /\ (pc \in {"loop", "legacy"}) ~> (pc \in {"idle", "aborted"})

\* C15 witness: the third mode of a list succeeded after the first two had
\* failed, and the fourth was not attempted
C15_Witness ==
  /\ BestEffortReturned /\ ret = "true"
  /\ attempts = <<P3_R8G8B8A8_REV, P3_R10G10B10A2_REV, P3_FP16>>

\* C16: a CreateWideColorCtx(mode) call entered with the display open and
\* the context and surface handles none, that fails at the config match, the
\* context creation, the window geometry or the surface creation, leaves on
\* the platform exactly the contexts and surfaces that were there before
\* (what the attempt created is destroyed) and both handles none.
C16_FailureRollsBack ==
  [][ ( /\ display_ # EGL_NO_DISPLAY
        /\ eglContext_ = EGL_NO_CONTEXT /\ surface_ = EGL_NO_SURFACE
        /\ cfgReply'.asked /\ NonFatal(failStep') ) =>
        /\ pc' = "idle" => ret' = "false"
        /\ egl'.contexts = egl.contexts /\ egl'.surfaces = egl.surfaces
        /\ eglContext_' = EGL_NO_CONTEXT /\ surface_' = EGL_NO_SURFACE
        /\ failStep' \in {"geometry", "surface"} <=>
             Occurs(calls', <<"eglCreateContext">>)
               /\ Last(calls') = "eglDestroyContext" ]_vars

\* C16 witness: a direct call on an open display with nothing live made a
\* context, was refused the window geometry and returned false
C16_Witness ==
  /\ lastOp = "CreateWideColorCtxMode" /\ pc = "idle" /\ ret = "false"
  /\ failStep = "geometry" /\ display_ # EGL_NO_DISPLAY /\ egl.initialized
  /\ egl.contexts = {} /\ egl.surfaces = {}

\* C17 (as claimed): whenever one operation destroys both a surface and a
\* context, the surface goes first; a context is destroyed before the
\* display is terminated; and nothing is live once the display is
\* terminated.
C17_ReverseOrderRelease ==
  /\ \A i, j \in 1..Len(calls) :
       /\ (calls[i] = "eglDestroySurface" /\ calls[j] = "eglDestroyContext")
            => i < j
       /\ (calls[i] = "eglDestroyContext" /\ calls[j] = "eglTerminate")
            => i < j
       /\ (calls[i] = "eglDestroySurface" /\ calls[j] = "eglTerminate")
            => i < j
  /\ (lastOp = "DestroyWideColorCtx" /\ calls # << >>) =>
       egl.contexts = {} /\ egl.surfaces = {}

\* C19: on a display that advertises the passthrough set, the modes
\* CreateWideColorCtx(void) attempts are the passthrough list in order, all
\* four when every attempt fails, and no standard P3 mode is among them even
\* when the P3 extension is advertised too; on a display that advertises the
\* P3 set and not the passthrough set they are the P3 list, and no
\* passthrough mode is among them.
C19_ExactChains ==
  (lastOp = "CreateWideColorCtx" /\ (AdvertisesPassthrough \/ AdvertisesP3)) =>
    LET chain == ModesFor(AdvertisesPassthrough)
    IN /\ chain = IF AdvertisesPassthrough
                    THEN << P3_PASSTHROUGH_R8G8B8A8_REV,
                            P3_PASSTHROUGH_R10G10B10A2_REV,
                            P3_PASSTHROUGH_FP16, SRGBA_R8G8B8A8_REV >>
                    ELSE << P3_R8G8B8A8_REV, P3_R10G10B10A2_REV, P3_FP16,
                            SRGBA_R8G8B8A8_REV >>
       /\ pc \in {"loop", "idle", "aborted"}
       /\ pc = "loop" => modes = chain
       /\ IsPrefix(attempts, chain)
       /\ (pc = "idle" /\ ret = "false") => attempts = chain
       /\ (pc = "idle" /\ ret = "true") => attempts # << >>
       /\ \A i \in 1..Len(attempts) :
            IF AdvertisesPassthrough
              THEN attempts[i] \notin
                     {P3_R8G8B8A8_REV, P3_R10G10B10A2_REV, P3_FP16}
              ELSE attempts[i] \notin
                     {P3_PASSTHROUGH_R8G8B8A8_REV,
                      P3_PASSTHROUGH_R10G10B10A2_REV, P3_PASSTHROUGH_FP16}

\* C19 witness: on a display advertising both sets the three passthrough
\* modes failed and the legacy mode was attempted next
C19_Witness ==
  /\ BestEffortReturned /\ AdvertisesPassthrough /\ AdvertisesP3
  /\ attempts = ModesFor(TRUE) /\ ret = "true"

\* C20 (as claimed): between calls every context and every surface live on
\* the platform is the one the engine's handle refers to, and after a
\* DestroyWideColorCtx() nothing of the engine is left on the platform.
C20_NoHandleLeaked ==
  /\ pc = "idle" =>
       /\ egl.contexts \subseteq {eglContext_}
       /\ egl.surfaces \subseteq {surface_}
  /\ lastOp = "DestroyWideColorCtx" =>
       egl.contexts = {} /\ egl.surfaces = {} /\ ~egl.initialized

====
